---- MODULE Spec2Model ----
(***************************************************************************)
(* Model of clean_outliers (src/clean_outliers.py): IQR outlier removal on *)
(* a pandas DataFrame, one numeric column after the other, on a working    *)
(* copy that shrinks after every column.                                   *)
(*                                                                         *)
(* Numbers.  Column values are integers without missing entries.  The      *)
(* floats the function computes (Q1, Q3, IQR, the bounds) are multiples of *)
(* 1/8 for such columns; a float is the record [nan, num] where num is the *)
(* number of eighths, and nan is the NaN that quantile() returns for an    *)
(* empty column.  Every comparison with NaN is false, as in IEEE 754.      *)
(***************************************************************************)
EXTENDS Integers, Sequences, FiniteSets

VARIABLES
    data,           \* the DataFrame passed in: columns, dtypes, rows (index label + values)
    cleaned_data,   \* the working copy (rows), line 52
    outlier_rows,   \* list of collected outlier rows, line 55
    stdout,         \* lines printed so far, line 76
    column_pos,     \* position of the for loop of line 58 in data.columns
    Q1, Q3, IQR, lower_bound, upper_bound,   \* locals of lines 61-69
    outliers,       \* the frame selected at line 72
    it,             \* position of iterrows() in outliers, line 75
    csv_file,       \* the file at outliers_csv
    ret,            \* the returned frame (rows)
    pc,             \* position in the function
    call,           \* 1 for the first call, 2 for a further call by the caller
    first           \* what the first call returned and collected, kept by the caller

vars == <<data, cleaned_data, outlier_rows, stdout, column_pos, Q1, Q3, IQR,
          lower_bound, upper_bound, outliers, it, csv_file, ret, pc, call, first>>

(***************************************************************************)
(* Bounds and input universes                                              *)
(***************************************************************************)
MaxRows == 5

MaxRowsExample == 4

ColumnNames == {"A", "B"}

\* rows of the bounded tables: A in {0,1,9}, B in {0,9}
SmallRows == {r \in [ColumnNames -> {0, 1, 9}] : r["B"] # 1}

\* rows of the tables that are run twice: A in {0,1}, B in {0,9}
TwoCallRows == {r \in SmallRows : r["A"] # 9}

Range(s) == {s[i] : i \in 1..Len(s)}

\* the table of the docstring example, lines 36-39
ExampleTable ==
    << [A |-> 1, B |-> 4], [A |-> 2, B |-> 5], [A |-> 3, B |-> 6],
       [A |-> 1000, B |-> 0 - 999] >>

ExampleRows == Range(ExampleTable)

Restrict(r, S) == [c \in S |-> r[c]]

Reverse(s) == [i \in 1..Len(s) |-> s[Len(s) + 1 - i]]

\* a DataFrame with the default RangeIndex 0..n-1
DataFrame(cols, dts, valrows) ==
    [columns |-> cols,
     dtypes  |-> dts,
     rows    |-> [i \in 1..Len(valrows) |->
                    [index |-> i - 1, vals |-> Restrict(valrows[i], Range(cols))]]]

Frames(universe, maxRows, colOrders) ==
    { DataFrame(cols, dts, t) :
        cols \in colOrders,
        dts \in [ColumnNames -> {"int64", "object"}],
        t \in UNION {[1..n -> universe] : n \in 0..maxRows} }

(***************************************************************************)
(* Floats                                                                  *)
(***************************************************************************)
NaN == [nan |-> TRUE, num |-> 0]

Float8(k) == [nan |-> FALSE, num |-> k]

FromInt(v) == Float8(8 * v)

Lt(x, y) == ~x.nan /\ ~y.nan /\ x.num < y.num

Gt(x, y) == Lt(y, x)

Minus(x, y) == IF x.nan \/ y.nan THEN NaN ELSE Float8(x.num - y.num)

Plus(x, y) == IF x.nan \/ y.nan THEN NaN ELSE Float8(x.num + y.num)

\* 3 * x in place of 1.5 * x
Times3(x) == IF x.nan THEN NaN ELSE Float8(3 * x.num)

\* 1.5 * x; exact for the even numbers of eighths that IQR takes
Times1_5(x) == IF x.nan THEN NaN ELSE Float8((3 * x.num) \div 2)

(***************************************************************************)
(* pandas operations used by the function                                  *)
(***************************************************************************)
\* a dtype test that also lets object columns through
is_numeric_dtype_any(dtype) == dtype \in {"int64", "float64", "object"}

is_numeric_dtype(dtype) == dtype \in {"int64", "float64"}

\* cleaned_data[column] : the column of a frame, as a sequence of values
ColumnOf(rows, c) == [i \in 1..Len(rows) |-> rows[i].vals[c]]

\* k-th smallest (1-based) of a non-empty sequence of integers
KthSmallest(s, k) ==
    CHOOSE v \in Range(s) :
        /\ Cardinality({i \in 1..Len(s) : s[i] < v}) < k
        /\ k <= Cardinality({i \in 1..Len(s) : s[i] <= v})

\* quantile without interpolation: the value at the floor rank
quantile_lower(s, q4) ==
    IF Len(s) = 0 THEN NaN
    ELSE Float8(8 * KthSmallest(s, ((q4 * (Len(s) - 1)) \div 4) + 1))

\* Series.quantile(q4/4), linear interpolation: rank q*(n-1), value
\* interpolated between the floor rank and the ceil rank; NaN when empty
quantile(s, q4) ==
    IF Len(s) = 0 THEN NaN
    ELSE LET rank4 == q4 * (Len(s) - 1)
             lo    == rank4 \div 4
             fr    == rank4 % 4
             hi    == IF fr = 0 THEN lo ELSE lo + 1
             a     == KthSmallest(s, lo + 1)
             b     == KthSmallest(s, hi + 1)
         IN  Float8(8 * a + 2 * fr * (b - a))

\* the boolean mask of line 72
outlier_mask(row, c, lb, ub) ==
    Lt(FromInt(row.vals[c]), lb) \/ Gt(FromInt(row.vals[c]), ub)

\* a mask that forgets the lower bound
keep_mask_upper_only(row, c, lb, ub) == ~Gt(FromInt(row.vals[c]), ub)

\* a mask that also drops the rows lying on a bound
keep_mask_inclusive(row, c, lb, ub) ==
    Lt(lb, FromInt(row.vals[c])) /\ Lt(FromInt(row.vals[c]), ub)

\* the boolean mask of line 80
keep_mask(row, c, lb, ub) ==
    ~(Lt(FromInt(row.vals[c]), lb) \/ Gt(FromInt(row.vals[c]), ub))

\* a writer that puts a blank record in the file when there is nothing to write
to_csv_placeholder(rowlist) ==
    IF rowlist = <<>> THEN [exists |-> TRUE, rows |-> << <<>> >>]
    ELSE [exists |-> TRUE, rows |-> [i \in 1..Len(rowlist) |-> rowlist[i].vals]]

\* DataFrame(outlier_rows).to_csv(index=False): one data row per record,
\* the index label is not written
to_csv(rowlist) == [exists |-> TRUE, rows |-> [i \in 1..Len(rowlist) |-> rowlist[i].vals]]

(***************************************************************************)
(* The function                                                            *)
(***************************************************************************)
column == data.columns[column_pos]

NoResult == [called |-> FALSE, data |-> <<>>, ret |-> <<>>, outlier_rows |-> <<>>, stdout |-> <<>>]

\* lines 52-55 for the frame d: copy, empty list, loop at its first column
Entry(d) ==
    /\ data = d
    /\ cleaned_data = d.rows
    /\ outlier_rows = <<>>
    /\ stdout = <<>>
    /\ column_pos = 1
    /\ Q1 = NaN /\ Q3 = NaN /\ IQR = NaN
    /\ lower_bound = NaN /\ upper_bound = NaN
    /\ outliers = <<>>
    /\ it = 1
    /\ csv_file = [exists |-> FALSE, rows |-> <<>>]
    /\ ret = <<>>
    /\ pc = "for"

InitFrom(frames) ==
    /\ \E d \in frames : Entry(d)
    /\ call = 1
    /\ first = NoResult

Init == InitFrom(Frames(SmallRows, MaxRows, {<<"A", "B">>}))

InitTwoCalls == InitFrom(Frames(TwoCallRows, MaxRows, {<<"A", "B">>}))

InitExample == InitFrom(Frames(ExampleRows, MaxRowsExample, {<<"A">>, <<"A", "B">>}))

\* lines 58-59: the column is not numeric, next column
SkipColumn ==
    /\ pc = "for"
    /\ column_pos <= Len(data.columns)
    /\ ~is_numeric_dtype(data.dtypes[column])
    /\ column_pos' = column_pos + 1
    /\ UNCHANGED <<data, cleaned_data, outlier_rows, stdout, Q1, Q3, IQR, lower_bound,
                   upper_bound, outliers, it, csv_file, ret, pc, call, first>>

\* lines 59-69: quartiles of the column of the working copy, IQR, bounds
ComputeBounds ==
    /\ pc = "for"
    /\ column_pos <= Len(data.columns)
    /\ is_numeric_dtype(data.dtypes[column])
    /\ LET q1  == quantile(ColumnOf(cleaned_data, column), 1)
           q3  == quantile(ColumnOf(cleaned_data, column), 3)
           iqr == Minus(q3, q1)
       IN  /\ Q1' = q1
           /\ Q3' = q3
           /\ IQR' = iqr
           /\ lower_bound' = Minus(q1, Times1_5(iqr))
           /\ upper_bound' = Plus(q3, Times1_5(iqr))
    /\ pc' = "find"
    /\ UNCHANGED <<data, cleaned_data, outlier_rows, stdout, column_pos, outliers, it,
                   csv_file, ret, call, first>>

\* line 72: the rows of the working copy outside the bounds
FindOutliers ==
    /\ pc = "find"
    /\ outliers' = SelectSeq(cleaned_data,
                             LAMBDA row : outlier_mask(row, column, lower_bound, upper_bound))
    /\ it' = 1
    /\ pc' = "iterrows"
    /\ UNCHANGED <<data, cleaned_data, outlier_rows, stdout, column_pos, Q1, Q3, IQR,
                   lower_bound, upper_bound, csv_file, ret, call, first>>

\* the loop written with enumerate(): the position is printed, not the index label
ReportOutlierEnumerate ==
    /\ pc = "iterrows"
    /\ it <= Len(outliers)
    /\ stdout' = Append(stdout, [index  |-> it - 1,
                                 column |-> column,
                                 value  |-> outliers[it].vals[column]])
    /\ outlier_rows' = Append(outlier_rows, outliers[it])
    /\ it' = it + 1
    /\ UNCHANGED <<data, cleaned_data, column_pos, Q1, Q3, IQR, lower_bound, upper_bound,
                   outliers, csv_file, ret, pc, call, first>>

\* lines 75-77: print one outlier and append its row
ReportOutlier ==
    /\ pc = "iterrows"
    /\ it <= Len(outliers)
    /\ stdout' = Append(stdout, [index  |-> outliers[it].index,
                                 column |-> column,
                                 value  |-> outliers[it].vals[column]])
    /\ outlier_rows' = Append(outlier_rows, outliers[it])
    /\ it' = it + 1
    /\ UNCHANGED <<data, cleaned_data, column_pos, Q1, Q3, IQR, lower_bound, upper_bound,
                   outliers, csv_file, ret, pc, call, first>>

\* the working copy is left as it is between the columns
DropNothing ==
    /\ pc = "iterrows"
    /\ it > Len(outliers)
    /\ column_pos' = column_pos + 1
    /\ pc' = "for"
    /\ UNCHANGED <<data, cleaned_data, outlier_rows, stdout, Q1, Q3, IQR, lower_bound,
                   upper_bound, outliers, it, csv_file, ret, call, first>>

\* line 80: drop the outliers of this column from the working copy, next column
DropOutliers ==
    /\ pc = "iterrows"
    /\ it > Len(outliers)
    /\ cleaned_data' = SelectSeq(cleaned_data,
                                 LAMBDA row : keep_mask(row, column, lower_bound, upper_bound))
    /\ column_pos' = column_pos + 1
    /\ pc' = "for"
    /\ UNCHANGED <<data, outlier_rows, stdout, Q1, Q3, IQR, lower_bound, upper_bound,
                   outliers, it, csv_file, ret, call, first>>

\* lines 83-84: the loop is over, write the collected rows
WriteCsv ==
    /\ pc = "for"
    /\ column_pos > Len(data.columns)
    /\ csv_file' = to_csv(outlier_rows)
    /\ pc' = "return"
    /\ UNCHANGED <<data, cleaned_data, outlier_rows, stdout, column_pos, Q1, Q3, IQR,
                   lower_bound, upper_bound, outliers, it, ret, call, first>>

\* line 86
Return ==
    /\ pc = "return"
    /\ ret' = cleaned_data
    /\ pc' = "done"
    /\ UNCHANGED <<data, cleaned_data, outlier_rows, stdout, column_pos, Q1, Q3, IQR,
                   lower_bound, upper_bound, outliers, it, csv_file, call, first>>

Next ==
    \/ SkipColumn
    \/ ComputeBounds
    \/ FindOutliers
    \/ ReportOutlier
    \/ DropOutliers
    \/ WriteCsv
    \/ Return

Spec == Init /\ [][Next]_vars

SpecExample == InitExample /\ [][Next]_vars

(***************************************************************************)
(* The caller runs the function a second time: lines 52-55 for a new frame *)
(***************************************************************************)
CallWith(d) ==
    /\ pc = "done"
    /\ call = 1
    /\ first' = [called |-> TRUE, data |-> data, ret |-> ret,
                 outlier_rows |-> outlier_rows, stdout |-> stdout]
    /\ call' = 2
    /\ data' = d
    /\ cleaned_data' = d.rows
    /\ outlier_rows' = <<>>
    /\ stdout' = <<>>
    /\ column_pos' = 1
    /\ Q1' = NaN /\ Q3' = NaN /\ IQR' = NaN
    /\ lower_bound' = NaN /\ upper_bound' = NaN
    /\ outliers' = <<>>
    /\ it' = 1
    /\ ret' = <<>>
    /\ pc' = "for"
    /\ UNCHANGED csv_file

\* clean_outliers(clean_df): the returned frame, same columns, index labels kept
CallAgain == CallWith([data EXCEPT !.rows = ret])

\* clean_outliers(df[reversed columns]): the same rows, columns declared in the other order
CallReversed == CallWith([data EXCEPT !.columns = Reverse(data.columns)])

NextAgain == Next \/ CallAgain

NextReversed == Next \/ CallReversed

SpecAgain == InitTwoCalls /\ [][NextAgain]_vars

SpecReversed == InitTwoCalls /\ [][NextReversed]_vars

(***************************************************************************)
(* Vocabulary of the properties                                            *)
(***************************************************************************)
Indices(rows) == {rows[i].index : i \in 1..Len(rows)}

Pos(rows, row) == CHOOSE p \in 1..Len(rows) : rows[p] = row

ColPos(c) == CHOOSE p \in 1..Len(data.columns) : data.columns[p] = c

NumericColumns == {c \in Range(data.columns) : data.dtypes[c] \in {"int64", "float64"}}

Line(row, c) == [index |-> row.index, column |-> c, value |-> row.vals[c]]

\* the frame with the given columns, all of them int64, and the given value rows
IsFrame(d, cols, valrows) ==
    /\ d.columns = cols
    /\ \A c \in Range(cols) : d.dtypes[c] = "int64"
    /\ Len(d.rows) = Len(valrows)
    /\ \A i \in 1..Len(valrows) :
          d.rows[i] = [index |-> i - 1, vals |-> Restrict(valrows[i], Range(cols))]

\* the row is outside [Q1 - 1.5 IQR, Q3 + 1.5 IQR] of column c of the frame
Exceeds(rows, row, c) ==
    LET q1  == quantile(ColumnOf(rows, c), 1)
        q3  == quantile(ColumnOf(rows, c), 3)
        iqr == Minus(q3, q1)
    IN  \/ Lt(FromInt(row.vals[c]), Minus(q1, Times1_5(iqr)))
        \/ Gt(FromInt(row.vals[c]), Plus(q3, Times1_5(iqr)))

TypeOK ==
    /\ pc \in {"for", "find", "iterrows", "return", "done"}
    /\ column_pos \in 1..(Len(data.columns) + 1)
    /\ Len(stdout) = Len(outlier_rows)

(***************************************************************************)
(* C1: after the function returns, the kept rows are unmodified input rows *)
(* in their original relative order, every collected outlier row is an     *)
(* unmodified input row, no row is both kept and collected, and kept rows  *)
(* plus collected rows are all the input rows.                             *)
(***************************************************************************)
C1_Partition ==
    pc = "done" =>
        /\ \A i \in 1..Len(ret) : ret[i] \in Range(data.rows)
        /\ \A i, j \in 1..Len(ret) :
              i < j => Pos(data.rows, ret[i]) < Pos(data.rows, ret[j])
        /\ \A i \in 1..Len(outlier_rows) : outlier_rows[i] \in Range(data.rows)
        /\ Indices(ret) \cap Indices(outlier_rows) = {}
        /\ Indices(ret) \cup Indices(outlier_rows) = Indices(data.rows)

C1_Witness ==
    /\ pc = "done"
    /\ Len(ret) > 0
    /\ {stdout[i].column : i \in 1..Len(stdout)} = {"A", "B"}
    /\ \E i \in 1..Len(ret) : ret[i].index > outlier_rows[1].index

(***************************************************************************)
(* C8: a table without a numeric column: no row is flagged, nothing is     *)
(* printed, the kept table is the input table, and the outliers file is    *)
(* written with zero data rows.                                            *)
(***************************************************************************)
C8_NoNumericColumn ==
    NumericColumns = {} =>
        /\ stdout = <<>>
        /\ outlier_rows = <<>>
        /\ outliers = <<>>
        /\ cleaned_data = data.rows
        /\ pc = "done" => /\ ret = data.rows
                          /\ csv_file.exists
                          /\ csv_file.rows = <<>>

\* the columns hold values that the bounds would exclude if they were numeric
C8_Witness ==
    /\ pc = "done"
    /\ NumericColumns = {}
    /\ ColumnOf(data.rows, "A") = <<0, 1, 1, 1, 9>>
    /\ ColumnOf(data.rows, "B") = <<0, 0, 0, 0, 9>>
    /\ Exceeds(data.rows, data.rows[5], "A")
    /\ Exceeds(data.rows, data.rows[5], "B")

(***************************************************************************)
(* C9: a table with zero rows: the kept table has zero rows, the outliers  *)
(* file is written with zero data rows, nothing is printed.                *)
(***************************************************************************)
C9_ZeroRows ==
    Len(data.rows) = 0 =>
        /\ stdout = <<>>
        /\ outlier_rows = <<>>
        /\ pc = "done" => /\ ret = <<>>
                          /\ csv_file.exists
                          /\ csv_file.rows = <<>>

\* both columns numeric: the quartiles of the empty columns were taken (NaN)
C9_Witness ==
    /\ pc = "done"
    /\ Len(data.rows) = 0
    /\ NumericColumns = {"A", "B"}
    /\ Q1.nan /\ upper_bound.nan

(***************************************************************************)
(* C10: printed lines and collected rows correspond one to one, one entry  *)
(* per flagged (row, column) pair; entries are grouped by column in the    *)
(* declared column order and, within a column, ascend with the position of *)
(* the row in the working copy; a line names the index label, the column   *)
(* and the value; all entries of a column are produced before a row is     *)
(* removed for that column and before the next quartiles are computed.     *)
(***************************************************************************)
\* entries of the column whose pass is under way
CurrentEntries == {i \in 1..Len(stdout) : stdout[i].column = column}

C10_Correspondence ==
    /\ Len(stdout) = Len(outlier_rows)
    /\ \A i \in 1..Len(stdout) :
          /\ outlier_rows[i] \in Range(data.rows)
          /\ stdout[i] = Line(outlier_rows[i], stdout[i].column)
    /\ \A i, j \in 1..Len(stdout) :
          /\ i < j => ColPos(stdout[i].column) <= ColPos(stdout[j].column)
          /\ (i # j) => <<stdout[i].index, stdout[i].column>> # <<stdout[j].index, stdout[j].column>>
    /\ pc = "iterrows" =>
          /\ Cardinality(CurrentEntries) = it - 1
          /\ \A i \in CurrentEntries :
                /\ outlier_rows[i] \in Range(cleaned_data)
                /\ Lt(FromInt(stdout[i].value), lower_bound)
                     \/ Gt(FromInt(stdout[i].value), upper_bound)
          /\ \A i, j \in CurrentEntries :
                i < j => Pos(cleaned_data, outlier_rows[i]) < Pos(cleaned_data, outlier_rows[j])

C10_Steps ==
    /\ stdout' # stdout =>
          /\ cleaned_data' = cleaned_data
          /\ <<Q1', Q3', IQR', lower_bound', upper_bound'>> = <<Q1, Q3, IQR, lower_bound, upper_bound>>
          /\ column_pos' = column_pos
          /\ Len(stdout') = Len(stdout) + 1
          /\ Len(outlier_rows') = Len(outlier_rows) + 1
    /\ cleaned_data' # cleaned_data =>
          /\ stdout' = stdout
          /\ \A i \in 1..Len(cleaned_data) :
                (cleaned_data[i] \notin Range(cleaned_data'))
                    <=> (Line(cleaned_data[i], column) \in Range(stdout))
    /\ column_pos' # column_pos =>
          \A i \in 1..Len(cleaned_data) :
              ( data.dtypes[column] = "int64"
                /\ ( Lt(FromInt(cleaned_data[i].vals[column]), lower_bound)
                     \/ Gt(FromInt(cleaned_data[i].vals[column]), upper_bound) ) )
                  => Line(cleaned_data[i], column) \in Range(stdout)
    /\ <<Q1', Q3'>> # <<Q1, Q3>> =>
          /\ \A i \in 1..Len(stdout) : ColPos(stdout[i].column) < column_pos
          /\ \A i \in 1..Len(stdout) : outlier_rows[i] \notin Range(cleaned_data)

\* C10: the correspondence holds in every state and every step keeps the order above
C10_DiagnosticsOrder == [](C10_Correspondence) /\ [][C10_Steps]_vars

\* one row flagged for each column, the later entry has the smaller index label
C10_Witness ==
    /\ pc = "done"
    /\ Len(stdout) = 2
    /\ stdout[1].column = "A" /\ stdout[2].column = "B"
    /\ stdout[2].index < stdout[1].index

(***************************************************************************)
(* C4 as stated: a numeric column of the input of any length n >= 2 whose  *)
(* values are identical except for one row: that row is flagged for the    *)
(* column and is not in the kept table.                                    *)
(***************************************************************************)
\* all values of s are the same except the one at position i
OddAt(s, i) ==
    /\ i \in 1..Len(s)
    /\ \A j \in 1..Len(s) : j # i => s[j] # s[i]
    /\ \A j, k \in 1..Len(s) : (j # i /\ k # i) => s[j] = s[k]

\* C4 as stated: the odd row of a column of n >= 2 input rows is flagged and not kept
C4_ZeroVarianceAnyLength ==
    pc = "done" =>
        \A c \in NumericColumns : \A i \in 1..Len(data.rows) :
            (Len(data.rows) >= 2 /\ OddAt(ColumnOf(data.rows, c), i))
                => /\ Line(data.rows[i], c) \in Range(stdout)
                   /\ data.rows[i] \notin Range(ret)

(***************************************************************************)
(* C4 amended: when the pass of a numeric column starts with n >= 4 rows   *)
(* in the working copy whose values in the column are identical except for *)
(* one row, that row is flagged for the column and dropped at line 80.     *)
(***************************************************************************)
C4_ZeroVarianceFourRows ==
    [][ (pc = "iterrows" /\ pc' = "for") =>
            \A i \in 1..Len(cleaned_data) :
                (Len(cleaned_data) >= 4 /\ OddAt(ColumnOf(cleaned_data, column), i))
                    => /\ Line(cleaned_data[i], column) \in Range(stdout)
                       /\ cleaned_data[i] \in Range(outlier_rows)
                       /\ cleaned_data[i] \notin Range(cleaned_data') ]_vars

\* the second column, after the first column removed a row: four rows are
\* left, the odd one has been reported and line 80 is next
C4_Witness ==
    /\ pc = "iterrows"
    /\ it > Len(outliers)
    /\ column_pos = 2
    /\ Len(data.rows) = 5
    /\ Len(cleaned_data) = 4
    /\ \E i \in 1..4 : /\ OddAt(ColumnOf(cleaned_data, column), i)
                       /\ outliers = <<cleaned_data[i]>>
                       /\ stdout[Len(stdout)] = Line(cleaned_data[i], column)

(***************************************************************************)
(* C5 as stated: a row outside the bounds of two columns is recorded once  *)
(* per column, twice in all, and no row is recorded twice for one column.  *)
(***************************************************************************)
Occurrences(rowlist, row) == Cardinality({i \in 1..Len(rowlist) : rowlist[i] = row})

\* C5 as stated: once per flagging column, so twice for a row outside both bounds
C5_RecordedOncePerColumn ==
    /\ \A i, j \in 1..Len(stdout) :
          (i # j /\ stdout[i].index = stdout[j].index) => stdout[i].column # stdout[j].column
    /\ pc = "done" =>
          \A i \in 1..Len(data.rows) :
              (NumericColumns = {"A", "B"}
               /\ Exceeds(data.rows, data.rows[i], "A")
               /\ Exceeds(data.rows, data.rows[i], "B"))
                  => Occurrences(outlier_rows, data.rows[i]) = 2

\* what the function does instead: no row is ever collected twice
C5_NeverCollectedTwice ==
    \A i, j \in 1..Len(outlier_rows) :
        outlier_rows[i].index = outlier_rows[j].index => i = j

(***************************************************************************)
(* C2 as stated: for the single column [1,2,3,1000], Q1 = 1.5, Q3 = 2.5,   *)
(* IQR = 1, bounds [0,4]; the row with 1000 is flagged and removed and the *)
(* kept table is [1,2,3].                                                  *)
(***************************************************************************)
SingleColumnExample == IsFrame(data, <<"A">>, ExampleTable)

\* C2 as stated: Q1 = 1.5, Q3 = 2.5, IQR = 1, bounds [0,4], kept [1,2,3]
C2_QuartilesAsStated ==
    SingleColumnExample =>
        /\ pc \in {"find", "iterrows"} =>
              /\ Q1 = Float8(12)
              /\ Q3 = Float8(20)
              /\ IQR = Float8(8)
              /\ lower_bound = Float8(0)
              /\ upper_bound = Float8(32)
        /\ pc = "done" =>
              /\ stdout = <<[index |-> 3, column |-> "A", value |-> 1000]>>
              /\ ColumnOf(ret, "A") = <<1, 2, 3>>

(***************************************************************************)
(* C2 amended: for the single column [1,2,3,1000] the quartiles at rank    *)
(* p*(n-1) are Q1 = 1.75, Q3 = 252.25, so IQR = 250.5 and the bounds are   *)
(* [-374, 628]; the row with 1000 is flagged and removed and the kept      *)
(* table is [1,2,3].                                                       *)
(***************************************************************************)
C2_Quartiles ==
    SingleColumnExample =>
        /\ pc \in {"find", "iterrows"} =>
              /\ Q1 = Float8(14)
              /\ Q3 = Float8(2018)
              /\ IQR = Float8(2004)
              /\ lower_bound = Float8(0 - 2992)
              /\ upper_bound = Float8(5024)
        /\ pc = "done" =>
              /\ stdout = <<[index |-> 3, column |-> "A", value |-> 1000]>>
              /\ outlier_rows = <<data.rows[4]>>
              /\ ColumnOf(ret, "A") = <<1, 2, 3>>
              /\ Indices(ret) = {0, 1, 2}

C2_Witness ==
    /\ SingleColumnExample
    /\ pc = "done"
    /\ Q1 = Float8(14)
    /\ Len(ret) = 3

(***************************************************************************)
(* C3: for A=[1,2,3,1000], B=[4,5,6,-999] exactly two lines are printed,   *)
(* row 3 for column 'A' with 1000, then row 3 for column 'B' with -999,    *)
(* and the kept table is rows 0, 1, 2.                                     *)
(***************************************************************************)
C3_DocstringExample ==
    (IsFrame(data, <<"A", "B">>, ExampleTable) /\ pc = "done") =>
        /\ stdout = << [index |-> 3, column |-> "A", value |-> 1000],
                       [index |-> 3, column |-> "B", value |-> 0 - 999] >>
        /\ ret = SubSeq(data.rows, 1, 3)

(***************************************************************************)
(* C6: column order matters.  Row 3 of the table below is mildly high in A *)
(* (1) and extremely high in B (9).  In the order A,B the rows 0,1,2,4 are *)
(* kept; in the order B,A row 3 is gone before the quartiles of A are      *)
(* taken, Q3 of A is 0.25 instead of 1, row 4 is flagged, rows 0,1,2 are   *)
(* kept.                                                                   *)
(***************************************************************************)
OrderTable ==
    << [A |-> 0, B |-> 0], [A |-> 0, B |-> 0], [A |-> 0, B |-> 0],
       [A |-> 1, B |-> 9], [A |-> 1, B |-> 0] >>

\* C6: the two column orders keep different rows of OrderTable
C6_OrderMatters ==
    (call = 2 /\ pc = "done" /\ IsFrame(first.data, <<"A", "B">>, OrderTable)) =>
        /\ data.columns = <<"B", "A">>
        /\ data.rows = first.data.rows
        /\ Indices(first.ret) = {0, 1, 2, 4}
        /\ Indices(ret) = {0, 1, 2}
        /\ Indices(ret) # Indices(first.ret)
        /\ quantile(ColumnOf(data.rows, "A"), 3) = Float8(8)
        /\ Q3 = Float8(2)

C6_Witness ==
    /\ call = 2
    /\ pc = "done"
    /\ IsFrame(first.data, <<"A", "B">>, OrderTable)
    /\ Len(first.ret) = 4
    /\ Len(ret) = 3

(***************************************************************************)
(* C7: a second run on the kept table removes no further row if and only   *)
(* if, for every numeric column, the bounds [Q1 - 1.5 IQR, Q3 + 1.5 IQR]   *)
(* taken on the kept table exclude none of its values; it then returns the *)
(* kept table unchanged and collects no outliers.                          *)
(***************************************************************************)
BoundsExcludeNothing(rows) ==
    \A c \in NumericColumns : \A i \in 1..Len(rows) :
        LET col == ColumnOf(rows, c)
            q1  == quantile(col, 1)
            q3  == quantile(col, 3)
            v   == FromInt(rows[i].vals[c])
        IN  /\ ~Lt(v, Minus(q1, Times1_5(Minus(q3, q1))))
            /\ ~Gt(v, Plus(q3, Times1_5(Minus(q3, q1))))

\* C7: the second run removes nothing iff the bounds on the kept table exclude nothing
C7_Idempotence ==
    (call = 2 /\ pc = "done") =>
        /\ data.rows = first.ret
        /\ (ret = first.ret) <=> BoundsExcludeNothing(first.ret)
        /\ BoundsExcludeNothing(first.ret) =>
              /\ outlier_rows = <<>>
              /\ stdout = <<>>
              /\ csv_file.rows = <<>>

\* the first run removed one extreme row per column, the second run removes none
C7_Witness ==
    /\ call = 2
    /\ pc = "done"
    /\ {first.stdout[i].column : i \in 1..Len(first.stdout)} = {"A", "B"}
    /\ BoundsExcludeNothing(first.ret)
    /\ ret = first.ret
    /\ Len(ret) = 3

\* a second run that does remove a further row
C7_SecondRunRemoves ==
    /\ call = 2
    /\ pc = "done"
    /\ Len(ret) < Len(first.ret)
====
